---- MODULE Spec2Model ----
(***************************************************************************)
(* PARSEC airfoil parameterisation (parsec.py): Parameters, Coefficients,  *)
(* Airfoil and the reference curve naca0012().                             *)
(*                                                                         *)
(* Numbers.  Every quantity the code computes by +, -, * from the genome   *)
(* and the constant tables is kept as an exact rational [n, d] in lowest   *)
(* terms.  The library calls whose results are irrational (math.tan,       *)
(* math.sqrt, X**e with half-integer e, np.linalg.solve) are kept as terms *)
(* and used only through what the library guarantees of them.              *)
(***************************************************************************)
EXTENDS Integers, Sequences, FiniteSets, TLC

VARIABLES
    lapack,   \* what the linear solver of this build does with infinite entries
    airfoil,  \* the Airfoil object: [made, params, coeff]
    before,   \* the Airfoil object as the last call found it
    ret,      \* the outcome of the last call: [op, genome, n_pts, x, exc, val]
    pgenome,  \* SpecParams: the genome handed to Parameters
    pres      \* SpecParams: what Parameters(pgenome) gave

vars == <<lapack, airfoil, before, ret, pgenome, pres>>

(***************************************************************************)
(* Bounds of the model.                                                    *)
(***************************************************************************)
GridN == 1        \* SpecParams: genome entries range over k/GridN, k in 0..GridN
MaxNptsK == 2     \* express: n_pts ranges over 50 * k, k in 1..MaxNptsK

(***************************************************************************)
(* Exact rationals.                                                        *)
(***************************************************************************)
Abs(i) == IF i < 0 THEN -i ELSE i

RECURSIVE GCD(_, _)
GCD(a, b) == IF b = 0 THEN a ELSE GCD(b, a % b)

R(num, den) ==
    LET g == GCD(Abs(num), Abs(den))
        s == IF den < 0 THEN -1 ELSE 1
    IN  [n |-> s * (num \div g), d |-> s * (den \div g)]

RInt(i) == [n |-> i, d |-> 1]
RNeg(a) == [n |-> -a.n, d |-> a.d]
RAdd(a, b) ==
    LET g == GCD(a.d, b.d)
        l == (a.d \div g) * b.d
    IN  R(a.n * (l \div a.d) + b.n * (l \div b.d), l)
RSub(a, b) == RAdd(a, RNeg(b))
RMul(a, b) ==
    LET g1 == GCD(Abs(a.n), b.d)
        g2 == GCD(Abs(b.n), a.d)
    IN  R((a.n \div g1) * (b.n \div g2), (a.d \div g2) * (b.d \div g1))
RHalf(a) == RMul(a, R(1, 2))
\* a <= b, compared over the least common denominator.
RLe(a, b) ==
    LET g == GCD(a.d, b.d)
    IN  a.n * (b.d \div g) <= b.n * (a.d \div g)
RSign(a) == IF a.n < 0 THEN -1 ELSE IF a.n = 0 THEN 0 ELSE 1

(***************************************************************************)
(* Parameters.__init__                                                     *)
(***************************************************************************)
\* A decimal with four places, as the tables of the source are written.
D4(i) == R(i, 10000)

\* The defaults of the 12 slots (RAE 2822).
param_vector ==
    << D4(1155), D4(7695), D4(1391), D4(2788), D4(1244), D4(1516),
       D4(7519), D4(3076), D4(5116), D4(0), D4(2629), D4(7630) >>

r_min ==
    << D4(37), D4(1500), D4(440), D4(-10000), D4(37), D4(3000),
       D4(-1200), D4(-15000), D4(-100), D4(20), D4(-100000), D4(-100000) >>

r_max ==
    << D4(500), D4(5175), D4(1588), D4(3000), D4(500), D4(6000),
       D4(-400), D4(-3000), D4(100), D4(26), D4(100000), D4(200000) >>

spread == [i \in 1..12 |-> RSub(r_max[i], r_min[i])]

\* The slots, were the genome written to the first ten.
FreeSlots_first_ten == << 1, 2, 3, 4, 5, 6, 7, 8, 9, 10 >>

\* The slots the genome is written to: [0,1,2,3,4,5,6,7,10,11], counted from 1.
FreeSlots == << 1, 2, 3, 4, 5, 6, 7, 8, 11, 12 >>

\* A genome is None, a bare scalar or a sequence of numbers.
NoGenome == [kind |-> "none", vals |-> << >>]
Scalar(v) == [kind |-> "scalar", vals |-> << v >>]
Vector(vs) == [kind |-> "seq", vals |-> vs]

\* numpy's rule for  param_vector[[...10 indices...]] = genome : the value is
\* broadcast to shape (10,), which a scalar and a length-1 sequence can be.
BroadcastsTo10(genome) ==
    \/ genome.kind = "scalar"
    \/ genome.kind = "seq" /\ Len(genome.vals) \in {1, 10}

Broadcast10(genome) ==
    [k \in 1..10 |-> IF Len(genome.vals) = 10 THEN genome.vals[k] ELSE genome.vals[1]]

SlotOf(i) == CHOOSE k \in 1..10 : FreeSlots[k] = i

\* param_vector after the genome has been written into it.
AssignGenome(genome) ==
    [i \in 1..12 |->
        IF \E k \in 1..10 : FreeSlots[k] = i
        THEN Broadcast10(genome)[SlotOf(i)]
        ELSE param_vector[i]]

\* The map, were it to scale by r_max instead of spread.
AffineMap_by_r_max(pv) == [i \in 1..12 |-> RAdd(RMul(pv[i], r_max[i]), r_min[i])]

\* p = (param_vector*spread)+r_min
AffineMap(pv) == [i \in 1..12 |-> RAdd(RMul(pv[i], spread[i]), r_min[i])]

\* math.radians, with pi taken as 355/113.
Pi == R(355, 113)
Radians(deg) == RMul(deg, RMul(Pi, R(1, 180)))

\* The 12 attributes, from p.
Attributes(p) ==
    [ r_le_up  |-> p[1],
      X_up     |-> p[2],
      Z_up     |-> p[3],
      Z_XX_up  |-> p[4],
      r_le_lo  |-> p[5],
      X_lo     |-> p[6],
      Z_lo     |-> p[7],
      Z_XX_lo  |-> RNeg(p[8]),
      Z_te     |-> p[9],
      dZ_te    |-> p[10],
      alpha_te |-> Radians(p[11]),
      beta_te  |-> Radians(p[12]) ]

None == [none |-> TRUE]
Ok(v) == [exc |-> "", val |-> v]
Raise(e) == [exc |-> e, val |-> None]

\* Parameters(genome): the object, or the ValueError of the failed broadcast.
Parameters(genome) ==
    IF genome.kind = "none" THEN Ok(Attributes(AffineMap(param_vector)))
    ELSE IF BroadcastsTo10(genome) THEN Ok(Attributes(AffineMap(AssignGenome(genome))))
    ELSE Raise("ValueError")

(***************************************************************************)
(* Floating-point values that are not plain rationals.                     *)
(*                                                                         *)
(* A matrix entry is c * b**(e2/2): [k, c, b, e2] with k = "fin", or an    *)
(* infinity (k = "inf", c = +1 or -1) or a NaN (k = "nan").  The normal    *)
(* form of a finite entry that is a plain number is b = 1, e2 = 0.         *)
(***************************************************************************)
Const(c) == [k |-> "fin", c |-> c, b |-> RInt(1), e2 |-> 0]
Inf(s) == [k |-> "inf", c |-> RInt(s), b |-> RInt(1), e2 |-> 0]
NaN == [k |-> "nan", c |-> RInt(0), b |-> RInt(1), e2 |-> 0]

\* X**(e2/2) for a numpy float64 X: a negative base with a fractional exponent
\* is nan, a zero base with a negative exponent is inf; neither raises.
Pow(X, e2) ==
    IF e2 = 0 \/ X = RInt(1) THEN Const(RInt(1))
    ELSE IF RSign(X) > 0 THEN [k |-> "fin", c |-> RInt(1), b |-> X, e2 |-> e2]
    ELSE IF RSign(X) = 0 THEN (IF e2 > 0 THEN Const(RInt(0)) ELSE Inf(1))
    ELSE IF e2 % 2 = 1 THEN NaN
    ELSE [k |-> "fin", c |-> RInt(1), b |-> X, e2 |-> e2]

\* c * v for a rational c # 0.
Times(c, v) ==
    IF v.k = "nan" THEN NaN
    ELSE IF v.k = "inf" THEN Inf(RSign(c) * v.c.n)
    ELSE IF v.c.n = 0 THEN Const(RInt(0))
    ELSE [v EXCEPT !.c = RMul(c, v.c)]

\* A right-hand-side entry: a rational, or math.tan / math.sqrt of one.
Num(x) == [f |-> "id", x |-> x]
Tan(x) == IF x.n = 0 THEN Num(RInt(0)) ELSE [f |-> "tan", x |-> x]
Sqrt(x) == IF x.n = 0 THEN Num(RInt(0)) ELSE [f |-> "sqrt", x |-> x]

(***************************************************************************)
(* Coefficients                                                            *)
(***************************************************************************)
\* A float literal with two decimal places (0.5 is Lit(50)), and 1.0 and 0.0.
Lit(hundredths) == R(hundredths, 100)
One == Const(RInt(1))
Zero == Const(RInt(0))

\* X**e for the half-integer exponent e = tenths/10 (X**0.5 is PowX(X, 5)).
PowX(X, tenths) == Pow(X, tenths \div 5)

prepare_linsys_Amat(X) ==
    << << One, One, One, One, One, One >>,
       << PowX(X, 5), PowX(X, 15), PowX(X, 25), PowX(X, 35), PowX(X, 45), PowX(X, 55) >>,
       << Const(Lit(50)), Const(Lit(150)), Const(Lit(250)),
          Const(Lit(350)), Const(Lit(450)), Const(Lit(550)) >>,
       << Times(Lit(50), PowX(X, -5)), Times(Lit(150), PowX(X, 5)),
          Times(Lit(250), PowX(X, 15)), Times(Lit(350), PowX(X, 25)),
          Times(Lit(450), PowX(X, 35)), Times(Lit(550), PowX(X, 45)) >>,
       << Times(Lit(-25), PowX(X, -15)), Times(Lit(75), PowX(X, -5)),
          Times(Lit(375), PowX(X, 5)), Times(Lit(875), PowX(X, 15)),
          Times(Lit(1325), PowX(X, 25)), Times(Lit(2475), PowX(X, 35)) >>,
       << One, Zero, Zero, Zero, Zero, Zero >> >>

Bvec_up(pp) ==
    << Num(RAdd(pp.Z_te, RHalf(pp.dZ_te))),
       Num(pp.Z_up),
       Tan(RSub(pp.alpha_te, RHalf(pp.beta_te))),
       Num(RInt(0)),
       Num(pp.Z_XX_up),
       Sqrt(RMul(RInt(2), pp.r_le_up)) >>

Bvec_lo(pp) ==
    << Num(RAdd(RNeg(pp.Z_te), RHalf(pp.dZ_te))),
       Num(RNeg(pp.Z_lo)),
       Tan(RAdd(pp.alpha_te, RHalf(pp.beta_te))),
       Num(RInt(0)),
       Num(RNeg(pp.Z_XX_lo)),
       Sqrt(RMul(RInt(2), pp.r_le_lo)) >>

HasNaN(Amat) == \E i, j \in 1..6 : Amat[i][j].k = "nan"
HasInf(Amat) == \E i, j \in 1..6 : Amat[i][j].k = "inf"

\* Two equal rows, or a row of zeros.  Of the matrices prepare_linsys_Amat
\* builds from X > 0, the one for X = 1 (rows 1 and 2 equal) is singular.
Singular(Amat) ==
    \/ \E i, j \in 1..6 : i # j /\ Amat[i] = Amat[j]
    \/ \E i \in 1..6 : Amat[i] = << Zero, Zero, Zero, Zero, Zero, Zero >>

\* A coefficient vector: the solution a of Amat.a = Bvec (negated when neg),
\* or six NaNs.
Solution(Amat, Bvec) == [k |-> "sol", A |-> Amat, B |-> Bvec, neg |-> FALSE]
NaNVector == [k |-> "nan", A |-> << >>, B |-> << >>, neg |-> FALSE]
Negate(a) == IF a.k = "nan" THEN a ELSE [a EXCEPT !.neg = ~a.neg]

\* np.linalg.solve.  It does not look for non-finite entries, and raises
\* LinAlgError only when the factorisation meets a pivot that is exactly 0.
\* The matrix of X < 0 has three rows of NaNs and three independent finite
\* rows: no pivot is 0, and six NaNs come out.  The matrix of X = 0 has
\* infinities and a row of zeros: whether a NaN or a 0 becomes the pivot
\* depends on the BLAS of the build (mode), so NaNs come out or the error.
solve(Amat, Bvec, mode) ==
    IF HasNaN(Amat) THEN Ok(NaNVector)
    ELSE IF HasInf(Amat)
    THEN (IF mode = "nan" THEN Ok(NaNVector) ELSE Raise("LinAlgError"))
    ELSE IF Singular(Amat) THEN Raise("LinAlgError")
    ELSE Ok(Solution(Amat, Bvec))

\* math.sqrt raises ValueError on a negative argument, while Bvec is built.
calc_a_up(pp, mode) ==
    IF RSign(pp.r_le_up) < 0 THEN Raise("ValueError")
    ELSE solve(prepare_linsys_Amat(pp.X_up), Bvec_up(pp), mode)

\* calc_a_lo, were it to return the solution without negating it.
calc_a_lo_not_negated(pp, mode) ==
    IF RSign(pp.r_le_lo) < 0 THEN Raise("ValueError")
    ELSE solve(prepare_linsys_Amat(pp.X_lo), Bvec_lo(pp), mode)

calc_a_lo(pp, mode) ==
    LET Negated(s) == IF s.exc # "" THEN s ELSE Ok(Negate(s.val))
    IN  IF RSign(pp.r_le_lo) < 0 THEN Raise("ValueError")
        ELSE Negated(solve(prepare_linsys_Amat(pp.X_lo), Bvec_lo(pp), mode))

Coefficients(pp, mode) ==
    LET Both(up, lo) ==
            IF up.exc # "" THEN Raise(up.exc)
            ELSE IF lo.exc # "" THEN Raise(lo.exc)
            ELSE Ok([a_up |-> up.val, a_lo |-> lo.val])
    IN  Both(calc_a_up(pp, mode), calc_a_lo(pp, mode))

(***************************************************************************)
(* naca0012(): the reference curve, in units of 1e-6.                      *)
(***************************************************************************)
naca0012_X6 ==
    << 999750, 999010, 997780, 996060, 993840, 991140, 987960, 984290, 980150, 975530,
       970440, 964890, 958880, 952410, 945500, 938150, 930370, 922160, 913540, 904510,
       895080, 885260, 875060, 864480, 853550, 842270, 830660, 818710, 806450, 793890,
       781040, 767910, 754520, 740880, 726990, 712890, 698570, 684060, 669370, 654510,
       639500, 624350, 609070, 593690, 578220, 562670, 547050, 531390, 515700, 500000,
       484290, 468600, 452950, 437330, 421780, 406310, 390930, 375660, 360500, 345490,
       330630, 315940, 301430, 287110, 273000, 259120, 245480, 232090, 218960, 206110,
       193550, 181290, 169340, 157730, 146450, 135520, 124940, 114740, 104920, 95492,
       86460, 77836, 69629, 61847, 54497, 47586, 41123, 35112, 29560, 24472,
       19853, 15708, 12042, 8856, 6156, 3943, 2219, 987, 247, 0,
       247, 987, 2219, 3943, 6156, 8856, 12042, 15708, 19853, 24472,
       29560, 35112, 41123, 47586, 54497, 61847, 69629, 77836, 86460, 95492,
       104920, 114740, 124940, 135520, 146450, 157730, 169340, 181290, 193550, 206110,
       218960, 232090, 245480, 259120, 273000, 287110, 301430, 315940, 330630, 345490,
       360500, 375660, 390930, 406310, 421780, 437330, 452950, 468600, 484290, 500000,
       515700, 531390, 547050, 562670, 578220, 593690, 609070, 624350, 639500, 654510,
       669370, 684060, 698570, 712890, 726990, 740880, 754520, 767910, 781040, 793890,
       806450, 818710, 830660, 842270, 853550, 864480, 875060, 885260, 895080, 904510,
       913540, 922160, 930370, 938150, 945500, 952410, 958880, 964890, 970440, 975530,
       980150, 984290, 987960, 991140, 993840, 996060, 997780, 999010, 999750, 1000000 >>

naca0012_Z6 ==
    << 36, 143, 322, 572, 891, 1280, 1737, 2260, 2849, 3501,
       4216, 4990, 5822, 6710, 7651, 8643, 9684, 10770, 11900, 13071,
       14280, 15523, 16800, 18106, 19438, 20795, 22173, 23569, 24981, 26405,
       27838, 29279, 30723, 32168, 33610, 35048, 36478, 37896, 39300, 40686,
       42052, 43394, 44708, 45992, 47242, 48455, 49626, 50754, 51833, 52862,
       53835, 54749, 55602, 56390, 57108, 57755, 58326, 58819, 59230, 59557,
       59797, 59947, 60006, 59971, 59841, 59614, 59288, 58863, 58338, 57712,
       56986, 56159, 55232, 54206, 53083, 51862, 50546, 49138, 47638, 46049,
       44374, 42615, 40776, 38859, 36867, 34803, 32671, 30473, 28213, 25893,
       23517, 21088, 18607, 16078, 13503, 10884, 8223, 5521, 2779, 0,
       -2779, -5521, -8223, -10884, -13503, -16078, -18607, -21088, -23517, -25893,
       -28213, -30473, -32671, -34803, -36867, -38859, -40776, -42615, -44374, -46049,
       -47638, -49138, -50546, -51862, -53083, -54206, -55232, -56159, -56986, -57712,
       -58338, -58863, -59288, -59614, -59841, -59971, -60006, -59947, -59797, -59557,
       -59230, -58819, -58326, -57755, -57108, -56390, -55602, -54749, -53835, -52862,
       -51833, -50754, -49626, -48455, -47242, -45992, -44708, -43394, -42052, -40686,
       -39300, -37896, -36478, -35048, -33610, -32168, -30723, -29279, -27838, -26405,
       -24981, -23569, -22173, -20795, -19438, -18106, -16800, -15523, -14280, -13071,
       -11900, -10770, -9684, -8643, -7651, -6710, -5822, -4990, -4216, -3501,
       -2849, -2260, -1737, -1280, -891, -572, -322, -143, -36, 0 >>

NCols == Len(naca0012_X6)

\* A row of the matrix is a sequence of runs, left to right.  A run is one
\* array: numbers of the reference curve (t = "ref", x the numbers) or the
\* values of one polynomial at an array of stations (t = "poly", a the
\* coefficient vector, x the stations).
RefRun(vs) == [t |-> "ref", a |-> None, x |-> vs]

\* The reference curve, were its two rows given in the other order.
naca0012_rows_swapped ==
    [ X |-> << RefRun([j \in 1..NCols |-> R(naca0012_Z6[j], 1000000)]) >>,
      Z |-> << RefRun([j \in 1..NCols |-> R(naca0012_X6[j], 1000000)]) >> ]

naca0012 ==
    [ X |-> << RefRun([j \in 1..NCols |-> R(naca0012_X6[j], 1000000)]) >>,
      Z |-> << RefRun([j \in 1..NCols |-> R(naca0012_Z6[j], 1000000)]) >> ]

RECURSIVE RowLen(_)
RowLen(row) == IF row = << >> THEN 0 ELSE Len(Head(row).x) + RowLen(Tail(row))

\* row[:n] and row[n:], for 0 <= n <= RowLen(row).
RECURSIVE TakeCols(_, _)
TakeCols(row, n) ==
    IF n = 0 \/ row = << >> THEN << >>
    ELSE LET h == Head(row)
         IN  IF Len(h.x) <= n THEN << h >> \o TakeCols(Tail(row), n - Len(h.x))
             ELSE << [h EXCEPT !.x = SubSeq(h.x, 1, n)] >>

RECURSIVE DropCols(_, _)
DropCols(row, n) ==
    IF row = << >> THEN << >>
    ELSE IF n = 0 THEN row
    ELSE LET h == Head(row)
         IN  IF Len(h.x) <= n THEN DropCols(Tail(row), n - Len(h.x))
             ELSE << [h EXCEPT !.x = SubSeq(h.x, n + 1, Len(h.x))] >> \o Tail(row)

\* The numbers of a row of reference numbers, as one array.
RECURSIVE Numbers(_)
Numbers(row) == IF row = << >> THEN << >> ELSE Head(row).x \o Numbers(Tail(row))

\* An array written over a slice; an empty array leaves no run.
Run(arr) == IF Len(arr.x) = 0 THEN << >> ELSE << arr >>
SetHead(row, stop, arr) == Run(arr) \o DropCols(row, stop)
SetTail(row, stop, arr) == TakeCols(row, stop) \o Run(arr)

\* Column j of a row: a reference number or one polynomial value.
RECURSIVE At(_, _)
At(row, j) ==
    LET h == Head(row)
    IN  IF j <= Len(h.x) THEN [t |-> h.t, a |-> h.a, x |-> h.x[j]]
        ELSE At(Tail(row), j - Len(h.x))

(***************************************************************************)
(* Airfoil                                                                 *)
(***************************************************************************)
\* a[0]*X**0.5 + a[1]*X**1.5 + ... + a[5]*X**5.5, as a term; X is a number
\* or an array of numbers, and the value a number or an array accordingly.
Poly(a, X) == [t |-> "poly", a |-> a, x |-> X]

\* The powers of X the polynomial multiplies the coefficients by.
Basis(X) ==
    << PowX(X, 5), PowX(X, 15), PowX(X, 25), PowX(X, 35), PowX(X, 45), PowX(X, 55) >>

\* Airfoil.__init__: only params is set; _coeff is left unset.
NoAirfoil == [made |-> FALSE, params |-> None, coeff |-> None]

Airfoil_init(genome) ==
    LET p == Parameters(genome)
    IN  IF p.exc # "" THEN Raise(p.exc)
        ELSE Ok([made |-> TRUE, params |-> p.val, coeff |-> None])

Z_up(self, X) ==
    IF self.coeff = None THEN Raise("AttributeError")
    ELSE Ok(Poly(self.coeff.a_up, X))

Z_lo(self, X) ==
    IF self.coeff = None THEN Raise("AttributeError")
    ELSE Ok(Poly(self.coeff.a_lo, X))

\* Where the slice [:n] of a row of NCols entries stops.
SliceStop(n) ==
    IF n >= 0 THEN (IF n < NCols THEN n ELSE NCols)
    ELSE (IF NCols + n > 0 THEN NCols + n ELSE 0)

\* express, were it to keep the object's params when no genome is given.
express_keeps_params(self, genome, n_pts, mode) ==
    LET Filled(s2) ==
            LET foil == naca0012
                stop == SliceStop(n_pts)
                up   == Z_up(s2, Numbers(TakeCols(foil.X, stop))).val
                lo   == Z_lo(s2, Numbers(DropCols(foil.X, stop))).val
            IN  [self |-> s2,
                 out  |-> Ok([X |-> foil.X,
                              Z |-> SetTail(SetHead(foil.Z, stop, up), stop, lo)])]
        WithCoeff(s1, c) ==
            IF c.exc # "" THEN [self |-> s1, out |-> Raise(c.exc)]
            ELSE Filled([s1 EXCEPT !.coeff = c.val])
        WithParams(p) ==
            IF p.exc # "" THEN [self |-> self, out |-> Raise(p.exc)]
            ELSE WithCoeff([self EXCEPT !.params = p.val], Coefficients(p.val, mode))
    IN  WithParams(IF genome.kind # "none" THEN Parameters(genome) ELSE Ok(self.params))

\* Airfoil.express: [self |-> the object afterwards, out |-> matrix or error].
express(self, genome, n_pts, mode) ==
    LET Filled(s2) ==
            LET foil == naca0012
                stop == SliceStop(n_pts)
                up   == Z_up(s2, Numbers(TakeCols(foil.X, stop))).val
                lo   == Z_lo(s2, Numbers(DropCols(foil.X, stop))).val
            IN  [self |-> s2,
                 out  |-> Ok([X |-> foil.X,
                              Z |-> SetTail(SetHead(foil.Z, stop, up), stop, lo)])]
        WithCoeff(s1, c) ==
            IF c.exc # "" THEN [self |-> s1, out |-> Raise(c.exc)]
            ELSE Filled([s1 EXCEPT !.coeff = c.val])
        WithParams(p) ==
            IF p.exc # "" THEN [self |-> self, out |-> Raise(p.exc)]
            ELSE WithCoeff([self EXCEPT !.params = p.val], Coefficients(p.val, mode))
    IN  WithParams(IF self.params # None THEN Parameters(genome) ELSE Ok(self.params))

(***************************************************************************)
(* What the library guarantees of a polynomial value.                      *)
(*                                                                         *)
(* np.linalg.solve returns a with Amat.a = Bvec.  So when the powers of X  *)
(* are a row r of Amat, the polynomial value is Bvec[r] (negated for a     *)
(* negated solution); at X = 0 every power is 0.  v.k is "num" (the value  *)
(* v.x), "nan", or "term" (a real number this model does not evaluate).    *)
(***************************************************************************)
PolyValue(z) ==
    IF z.a.k = "nan" THEN [k |-> "nan", x |-> RInt(0)]
    ELSE IF Basis(z.x) = << Zero, Zero, Zero, Zero, Zero, Zero >> THEN [k |-> "num", x |-> RInt(0)]
    ELSE IF \E r \in 1..6 : z.a.A[r] = Basis(z.x) /\ z.a.B[r].f = "id"
    THEN LET r == CHOOSE r \in 1..6 : z.a.A[r] = Basis(z.x) /\ z.a.B[r].f = "id"
         IN  [k |-> "num", x |-> IF z.a.neg THEN RNeg(z.a.B[r].x) ELSE z.a.B[r].x]
    ELSE [k |-> "term", x |-> RInt(0)]

(***************************************************************************)
(* The calls a client makes.                                               *)
(***************************************************************************)
Half == R(1, 2)
Mid == [k \in 1..10 |-> Half]
With(vs, slot, v) == [vs EXCEPT ![slot] = v]

\* The genomes of Spec: none, the wrong shapes, an in-range one, and ones
\* whose entries outside [0,1] put a crest at X <= 0, at X = 1, or make a
\* leading-edge radius negative.
Genomes ==
    { NoGenome,
      Scalar(Half),
      Vector(<< >>),
      Vector(<< Half >>),
      Vector(SubSeq(Mid, 1, 9)),
      Vector(Mid \o << Half >>),
      Vector(Mid),
      Vector(With(Mid, 2, R(-20, 49))),
      Vector(With(Mid, 6, RInt(-2))),
      Vector(With(Mid, 2, R(340, 147))),
      Vector(With(Mid, 1, RInt(-1))) }

NptsChoices == { 50 * k : k \in 1..MaxNptsK }

\* The X a client evaluates a surface at.
XChoices == { RInt(0), Half, RInt(1) }

Call(op, genome, n_pts, x, out) ==
    [op |-> op, genome |-> genome, n_pts |-> n_pts, x |-> x,
     exc |-> out.exc, val |-> out.val]

NoCall == Call("", NoGenome, 0, RInt(0), Ok(None))

Init ==
    /\ lapack \in {"nan", "raise"}
    /\ airfoil = NoAirfoil
    /\ before = NoAirfoil
    /\ ret = NoCall
    /\ pgenome = NoGenome
    /\ pres = None

\* Parameters(genome)
NewParameters(genome) ==
    /\ ret' = Call("Parameters", genome, 0, RInt(0), Parameters(genome))
    /\ before' = airfoil
    /\ UNCHANGED <<lapack, airfoil, pgenome, pres>>

\* Coefficients(Parameters(genome))
NewCoefficients(genome) ==
    /\ Parameters(genome).exc = ""
    /\ ret' = Call("Coefficients", genome, 0, RInt(0),
                   Coefficients(Parameters(genome).val, lapack))
    /\ before' = airfoil
    /\ UNCHANGED <<lapack, airfoil, pgenome, pres>>

\* airfoil = Airfoil(genome); a constructor that raises leaves the name bound
\* to what it was bound to.
NewAirfoil(genome) ==
    LET out == Airfoil_init(genome)
    IN  /\ airfoil' = IF out.exc = "" THEN out.val ELSE airfoil
        /\ ret' = Call("Airfoil", genome, 0, RInt(0),
                       IF out.exc = "" THEN Ok(None) ELSE out)
        /\ before' = airfoil
    /\ UNCHANGED <<lapack, pgenome, pres>>

\* airfoil.express(genome, n_pts)
CallExpress(genome, n_pts) ==
    /\ airfoil.made
    /\ LET r == express(airfoil, genome, n_pts, lapack)
       IN  /\ airfoil' = r.self
           /\ ret' = Call("express", genome, n_pts, RInt(0), r.out)
    /\ before' = airfoil
    /\ UNCHANGED <<lapack, pgenome, pres>>

\* airfoil.Z_up(X)
CallZ_up(X) ==
    /\ airfoil.made
    /\ ret' = Call("Z_up", NoGenome, 0, X, Z_up(airfoil, X))
    /\ before' = airfoil
    /\ UNCHANGED <<lapack, airfoil, pgenome, pres>>

\* airfoil.Z_lo(X)
CallZ_lo(X) ==
    /\ airfoil.made
    /\ ret' = Call("Z_lo", NoGenome, 0, X, Z_lo(airfoil, X))
    /\ before' = airfoil
    /\ UNCHANGED <<lapack, airfoil, pgenome, pres>>

Next ==
    \/ \E g \in Genomes : NewParameters(g)
    \/ \E g \in Genomes : NewCoefficients(g)
    \/ \E g \in Genomes : NewAirfoil(g)
    \/ \E g \in Genomes, n \in NptsChoices : CallExpress(g, n)
    \/ \E X \in XChoices : CallZ_up(X)
    \/ \E X \in XChoices : CallZ_lo(X)

Spec == Init /\ [][Next]_vars

(***************************************************************************)
(* SpecParams: Parameters as a function of the genome, over every genome   *)
(* with entries k/GridN in [0,1] and over the genomes of Spec.             *)
(***************************************************************************)
GridVals == { R(k, GridN) : k \in 0..GridN }
GridGenomes == { Vector(v) : v \in [1..10 -> GridVals] }

InitParams ==
    /\ pgenome \in GridGenomes \cup Genomes
    /\ pres = None
    /\ lapack = "nan"
    /\ airfoil = NoAirfoil
    /\ before = NoAirfoil
    /\ ret = NoCall

ApplyParameters ==
    /\ pres = None
    /\ pres' = Parameters(pgenome)
    /\ UNCHANGED <<lapack, airfoil, before, ret, pgenome>>

NextParams == ApplyParameters

SpecParams == InitParams /\ [][NextParams]_vars

(***************************************************************************)
(* Properties.                                                             *)
(***************************************************************************)
ExpressReturned == ret.op = "express" /\ ret.exc = ""
DefaultParams == Attributes(AffineMap(param_vector))
IsSolution(a) == a.k = "sol"
NumValue(x) == [k |-> "num", x |-> x]

\* C1: express(params, n_pts = N) returns a [2 x 2N] matrix whose Z row has
\* exactly its first N columns computed from a_up and exactly the remaining N
\* columns computed from a_lo, for every N.
C1_ShapeIsTwoNWithEqualHalves ==
    ExpressReturned =>
        LET N == ret.n_pts
        IN  /\ RowLen(ret.val.X) = 2 * N
            /\ RowLen(ret.val.Z) = 2 * N
            /\ \A j \in 1..RowLen(ret.val.Z) :
                  /\ At(ret.val.Z, j).t = "poly"
                  /\ At(ret.val.Z, j).a =
                        IF j <= N THEN airfoil.coeff.a_up ELSE airfoil.coeff.a_lo

WrongLength(genome) ==
    \/ genome.kind = "scalar"
    \/ genome.kind = "seq" /\ Len(genome.vals) # 10

\* C2: a genome whose length is not exactly 10 (a bare scalar included) makes
\* Parameters(genome), Airfoil(genome) and express(genome) raise the shape
\* error (the ValueError of the failed assignment); none is accepted.
C2_WrongLengthRaises ==
    (ret.op \in {"Parameters", "Airfoil", "express"} /\ WrongLength(ret.genome)) =>
        /\ ret.exc = "ValueError"
        /\ airfoil = before

\* The matrix of the default (RAE 2822) parameters.
DefaultMatrix(n_pts) ==
    LET c    == Coefficients(DefaultParams, lapack).val
        stop == SliceStop(n_pts)
    IN  [ X |-> naca0012.X,
          Z |-> Run(Poly(c.a_up, Numbers(TakeCols(naca0012.X, stop))))
                \o Run(Poly(c.a_lo, Numbers(DropCols(naca0012.X, stop)))) ]

\* C3: express(g, n) returns what it returns on a freshly constructed Airfoil,
\* whatever genome that Airfoil is constructed with and whatever calls came
\* before; with no genome it returns the default (RAE 2822) airfoil.
C3_ExpressIsPure ==
    ret.op = "express" =>
        /\ \A g0 \in Genomes :
              Airfoil_init(g0).exc = "" =>
                  express(Airfoil_init(g0).val, ret.genome, ret.n_pts, lapack).out
                      = [exc |-> ret.exc, val |-> ret.val]
        /\ ret.genome = NoGenome => ret.exc = "" /\ ret.val = DefaultMatrix(ret.n_pts)

\* express() with no genome has returned, on an object that an earlier express
\* had left with other parameters and their coefficients.
C3_Witness ==
    /\ ExpressReturned
    /\ ret.genome = NoGenome
    /\ before.coeff # None
    /\ before.params # DefaultParams

InUnitInterval(genome) ==
    /\ genome.kind = "seq"
    /\ Len(genome.vals) = 10
    /\ \A k \in 1..10 : RLe(RInt(0), genome.vals[k]) /\ RLe(genome.vals[k], RInt(1))

Exposed(pp) ==
    << pp.r_le_up, pp.X_up, pp.Z_up, pp.Z_XX_up, pp.r_le_lo, pp.X_lo,
       pp.Z_lo, pp.Z_XX_lo, pp.Z_te, pp.dZ_te, pp.alpha_te, pp.beta_te >>

WithinSlot(v, i) == RLe(r_min[i], v) /\ RLe(v, r_max[i])

\* The value slot i is mapped to: the genome's for a free slot, else the default's.
Mapped(genome, i) ==
    LET v == IF i = 9 THEN D4(5116)
             ELSE IF i = 10 THEN RInt(0)
             ELSE genome.vals[IF i <= 8 THEN i ELSE i - 2]
    IN  RAdd(RMul(v, RSub(r_max[i], r_min[i])), r_min[i])

AnglesAreRadians(genome, pp) ==
    /\ pp.alpha_te = Radians(Mapped(genome, 11))
    /\ pp.beta_te = Radians(Mapped(genome, 12))

ParametersMapped == pres # None /\ pres.exc = "" /\ InUnitInterval(pgenome)

XRow == Numbers(ret.val.X)

XRowTraversal ==
    /\ Len(XRow) = 200
    /\ \A j \in 1..99 : RLe(XRow[j + 1], XRow[j])
    /\ XRow[100] = RInt(0)
    /\ \A j \in 101..199 : RLe(XRow[j], XRow[j + 1])
    /\ XRow[200] = RInt(1)
    /\ \A j \in 1..200 : RLe(RInt(0), XRow[j]) /\ RLe(XRow[j], RInt(1))

ExpressReturned100 == ExpressReturned /\ ret.n_pts = 100

\* C5 as claimed: for n_pts = 100 the X row is the reference curve's, with
\* X[0] = 1.0, non-increasing over columns 0..99 down to X[99] = 0.0, then
\* non-decreasing over columns 100..199 up to X[199] = 1.0, every X in [0,1].
C5_XRowStartsAtOne ==
    ExpressReturned100 =>
        /\ \A j \in 1..RowLen(ret.val.X) : At(ret.val.X, j).t = "ref"
        /\ XRow[1] = RInt(1)
        /\ XRowTraversal

\* C5 as amended: the same, except that the first station is X[0] = 0.99975,
\* not 1.0 (the upper surface starts just short of the trailing edge).
C5_XRowStartsBelowOne ==
    ExpressReturned100 =>
        /\ \A j \in 1..RowLen(ret.val.X) : At(ret.val.X, j).t = "ref"
        /\ XRow[1] = R(99975, 100000)
        /\ XRowTraversal

\* express has returned a matrix for the default station count.
C5_Witness == ExpressReturned100 /\ RowLen(ret.val.X) = 200

TrailingEdgeHonoured(c, pp) ==
    /\ PolyValue(Poly(c.a_up, RInt(1))) = NumValue(RAdd(pp.Z_te, RHalf(pp.dZ_te)))
    /\ PolyValue(Poly(c.a_lo, RInt(1))) = NumValue(RSub(pp.Z_te, RHalf(pp.dZ_te)))

BothSolved(c) == IsSolution(c.a_up) /\ IsSolution(c.a_lo)

\* C6: when both systems are solvable, the upper polynomial at X = 1.0 is
\* Z_te + dZ_te/2 and the lower polynomial at X = 1.0 is Z_te - dZ_te/2.
C6_TrailingEdge ==
    /\ (ret.op = "Coefficients" /\ ret.exc = "" /\ BothSolved(ret.val)) =>
          TrailingEdgeHonoured(ret.val, Parameters(ret.genome).val)
    /\ (ExpressReturned /\ BothSolved(airfoil.coeff)) =>
          /\ TrailingEdgeHonoured(airfoil.coeff, airfoil.params)
          /\ \A j \in 1..RowLen(ret.val.Z) :
                (At(ret.val.Z, j).x = RInt(1) /\ At(ret.val.Z, j).a = airfoil.coeff.a_lo) =>
                    PolyValue(At(ret.val.Z, j))
                        = NumValue(RSub(airfoil.params.Z_te, RHalf(airfoil.params.dZ_te)))
    /\ (ret.op \in {"Z_up", "Z_lo"} /\ ret.exc = "" /\ ret.x = RInt(1)
            /\ BothSolved(airfoil.coeff)) =>
          PolyValue(ret.val) =
              NumValue(IF ret.op = "Z_up"
                       THEN RAdd(airfoil.params.Z_te, RHalf(airfoil.params.dZ_te))
                       ELSE RSub(airfoil.params.Z_te, RHalf(airfoil.params.dZ_te)))

\* Both systems have been solved and the matrix returned holds the lower
\* polynomial's value at the station X = 1.0.
C6_Witness ==
    /\ ExpressReturned
    /\ BothSolved(airfoil.coeff)
    /\ At(ret.val.Z, 200).x = RInt(1)
    /\ At(ret.val.Z, 200).a = airfoil.coeff.a_lo
    /\ PolyValue(At(ret.val.Z, 200)).k = "num"

CrestNotPositive(pp) == RSign(pp.X_up) <= 0 \/ RSign(pp.X_lo) <= 0

\* C7: whenever a crest X-location is <= 0, Coefficients(...) and express fail
\* with an error raised to the caller (the claim's DomainError; any exception
\* is counted as one here); no coefficient vector and no matrix is returned.
C7_NonPositiveCrestRaises ==
    (/\ ret.op \in {"Coefficients", "express"}
     /\ Parameters(ret.genome).exc = ""
     /\ CrestNotPositive(Parameters(ret.genome).val)) =>
        ret.exc # ""

\* C8: for every accepted genome, Z_te and dZ_te are what they are with no
\* genome; the genome's values go to slots {0,..,7,10,11} in order.
C8_TrailingEdgeSlotsKeepDefaults ==
    (pres # None /\ pres.exc = "") =>
        /\ pres.val.Z_te = Parameters(NoGenome).val.Z_te
        /\ pres.val.dZ_te = Parameters(NoGenome).val.dZ_te
        /\ pres.val.Z_te = R(29, 125000)
        /\ pres.val.dZ_te = R(1, 500)
        /\ (pgenome.kind = "seq" /\ Len(pgenome.vals) = 10) =>
              /\ \A i \in 1..7 : Exposed(pres.val)[i] = Mapped(pgenome, i)
              /\ pres.val.Z_XX_lo = RNeg(Mapped(pgenome, 8))
              /\ AnglesAreRadians(pgenome, pres.val)

\* Parameters has accepted a 10-element genome whose ninth and tenth values
\* differ from the defaults of slots 8 and 9.
C8_Witness ==
    /\ pres # None
    /\ pres.exc = ""
    /\ pgenome.kind = "seq"
    /\ Len(pgenome.vals) = 10
    /\ pgenome.vals[9] = RInt(1)
    /\ pgenome.vals[10] = RInt(1)

\* d/dX of c * b**(e2/2), for the entries whose base is X.
Derivative(v) == Times(R(v.e2, 2), [v EXCEPT !.e2 = v.e2 - 2])

RowsAreDerivatives(Amat) ==
    \A j \in 1..6 :
        /\ Amat[4][j] = Derivative(Amat[2][j])
        /\ Amat[5][j] = Derivative(Derivative(Amat[2][j]))

\* C9: for X > 0, rows 4 and 5 of the matrix are the first and second
\* derivatives of the row-2 basis: e * X^(e-1) and e*(e-1) * X^(e-2), with
\* row-5 factors -0.25, 0.75, 3.75, 8.75, 15.75, 24.75.
C9_RowsAreDerivatives ==
    (ret.op = "Coefficients" /\ ret.exc = "" /\ BothSolved(ret.val)) =>
        /\ RowsAreDerivatives(ret.val.a_up.A)
        /\ RowsAreDerivatives(ret.val.a_lo.A)
        /\ \A j \in 1..6 :
              ret.val.a_up.A[5][j].c = R(<< -25, 75, 375, 875, 1575, 2475 >>[j], 100)

\* C10: an Airfoil is never partially initialised: once constructed, its
\* coefficients exist and are the ones solved from self.params, and Z_up and
\* Z_lo evaluate the polynomial rather than fail.
C10_NeverPartiallyInitialised ==
    /\ airfoil.made =>
          /\ airfoil.coeff # None
          /\ Coefficients(airfoil.params, lapack) = Ok(airfoil.coeff)
    /\ ret.op \in {"Z_up", "Z_lo"} => ret.exc = ""

====
